---- MODULE Spec2Model ----
(***************************************************************************)
(* Model of the score-atelier front end: the Privacy API client            *)
(* (lib/privacy-api), the request-lifecycle hooks and the form hook        *)
(* (hooks/use-privacy-api-simple.ts).                                      *)
(*                                                                         *)
(* JavaScript values are modelled as records so that values of different   *)
(* kinds can be compared: Null, Undefined, numbers wrapped by Num, JSON    *)
(* objects as records of their fields, thrown errors as records with a     *)
(* name and a message.  Text that is trimmed is a tuple of characters.     *)
(***************************************************************************)
EXTENDS Integers, Sequences, FiniteSets, TLC

VARIABLES
    hook,         \* which of the four request hooks this instance is
    data,         \* the hook's result slot
    loading,      \* the hook's loading flag
    error,        \* the hook's error slot
    pending,      \* number of trigger calls awaiting the client
    inFlight,     \* number of HTTP requests sent and not yet answered
    overlapped,   \* a trigger was invoked while another call was outstanding
    lastSettled,  \* the most recently completed call: network outcome,
                  \* client result, and result of the trigger's promise
    initialData,  \* useAppForm's argument
    formData,     \* useAppForm: the AppData being edited
    errors,       \* useAppForm: field name -> validation message
    validated,    \* the last validateForm call: what it returned, the errors
                  \* it replaced, and whether nothing was edited since
    edits,        \* number of field edits made so far
    lastFormOp,   \* the last useAppForm operation: its name, the fields it
                  \* was given, and the errors recorded before it ran
    predictions,  \* usePredictionHistory: the list of results, newest first
    surviving,    \* every result added since the last clearHistory that
                  \* removePrediction did not remove, newest first
    added,        \* number of addPrediction calls made so far
    irregular,    \* number of removePrediction calls and of additions with
                  \* a timestamp already in use made so far
    lastHistoryOp, \* the last usePredictionHistory operation: its name, its
                  \* argument, and the list before it ran
    surface,      \* which calculator surface this page is
    appName,      \* the name input (appName; appInput in About and Hero)
    category,     \* Permissions Checker: the category input
    switches,     \* Permissions Checker: the five app property switches
    permissions,  \* Permissions Checker: the list of permission toggles
    isLoading,    \* Hero: its own loading flag
    heroResult,   \* Hero: its result state
    request,      \* body of the request in flight, null when there is none
    lastEvent,    \* the last event the page handled
    inputs,       \* number of input changes made so far
    handled,      \* how the submit handler invoked last completed, null
                  \* while it is awaiting and before the first submit
    riskView,     \* the risk level rendered last, with its badge colour and
                  \* icon on both pages; null before the first
    factorView,   \* the risk factor rendered last, with its glyph
    fetchCall     \* the options makeRequest was given last, with the second
                  \* argument it gave fetch

apiVars  == <<hook, data, loading, error, pending, inFlight, overlapped,
              lastSettled>>
formVars == <<initialData, formData, errors, validated, edits, lastFormOp>>
historyVars == <<predictions, surviving, added, irregular, lastHistoryOp>>
inputVars == <<appName, category, switches, permissions>>
heroVars == <<isLoading, heroResult>>
pageVars == <<surface, appName, category, switches, permissions,
              isLoading, heroResult, request, lastEvent, inputs, handled>>
viewVars == <<riskView, factorView, fetchCall>>
vars     == <<hook, data, loading, error, pending, inFlight, overlapped,
              lastSettled,
              initialData, formData, errors, validated, edits, lastFormOp,
              predictions, surviving, added, irregular, lastHistoryOp,
              surface, appName, category, switches, permissions,
              isLoading, heroResult, request, lastEvent, inputs, handled,
              riskView, factorView, fetchCall>>

(***************************************************************************)
(* Bounds                                                                  *)
(***************************************************************************)
MaxPending == 2
MaxEdits == 1
MaxAdded == 11
MaxIrregular == 2
MaxInputs == 2

(***************************************************************************)
(* JavaScript values                                                       *)
(***************************************************************************)
Null == [type |-> "null"]
Undefined == [type |-> "undefined"]
Num(n) == [type |-> "number", value |-> n]

Fulfilled(v) == [state |-> "fulfilled", value |-> v]
Rejected(e) == [state |-> "rejected", value |-> e]

\* `x || y` on strings that may be absent: the empty string is falsy
Truthy(s) == s # ""
Has(obj, key) == key \in DOMAIN obj

(***************************************************************************)
(* The backend as seen through fetch                                       *)
(***************************************************************************)
Statuses == {200, 404, 500}

ReasonPhrase(status) ==
    CASE status = 200 -> "OK"
      [] status = 404 -> "Not Found"
      [] status = 500 -> "Internal Server Error"
      [] OTHER -> ""

\* JSON bodies: with or without the detail and message fields
JsonBodies ==
    { [privacy_level |-> "HIGH"],
      [detail |-> "not found"],
      [message |-> "bad request"],
      [detail |-> "not found", message |-> "bad request"] }

Bodies ==
    { [parses |-> TRUE, value |-> j] : j \in JsonBodies }
      \cup { [parses |-> FALSE, value |-> Null] }

\* statusText is the reason phrase, or empty (HTTP/2 carries none)
Responses ==
    { [status |-> s, statusText |-> t, body |-> b] :
        s \in Statuses, t \in {"", "Not Found", "Internal Server Error", "OK"},
        b \in Bodies }

WellFormed(r) == r.statusText \in {"", ReasonPhrase(r.status)}

FetchOutcomes ==
    { [kind |-> "response", response |-> r] : r \in {x \in Responses : WellFormed(x)} }
      \cup { [kind |-> "rejected",
              reason |-> [name |-> "TypeError", message |-> "Failed to fetch"]] }

ResponseOk(response) == response.status >= 200 /\ response.status <= 299

\* mutant: the parsed body is wrapped instead of returned as it is
ResponseJsonWrapped(response) ==
    IF response.body.parses
      THEN Fulfilled([data |-> response.body.value])
      ELSE Rejected([name |-> "SyntaxError", message |-> "Unexpected token"])

\* response.json()
ResponseJson(response) ==
    IF response.body.parses
      THEN Fulfilled(response.body.value)
      ELSE Rejected([name |-> "SyntaxError", message |-> "Unexpected token"])

(***************************************************************************)
(* PrivacyApiError and PrivacyApiClient                                    *)
(***************************************************************************)
PrivacyApiError(message, status, details) ==
    [name |-> "PrivacyApiError", message |-> message,
     status |-> status, details |-> details]

InstanceOfPrivacyApiError(e) == e.name = "PrivacyApiError"
InstanceOfError(e) == Has(e, "message")

\* `HTTP ${response.status}`
HttpStatusLabel(status) ==
    CASE status = 404 -> "HTTP 404"
      [] status = 500 -> "HTTP 500"
      [] status = 200 -> "HTTP 200"
      [] OTHER -> "HTTP"

\* mutant: message is preferred over detail
ErrorMessagePrefersMessage(errorDetails, status) ==
    IF Has(errorDetails, "message") /\ Truthy(errorDetails.message)
      THEN errorDetails.message
      ELSE IF Has(errorDetails, "detail") /\ Truthy(errorDetails.detail)
        THEN errorDetails.detail
        ELSE HttpStatusLabel(status)

\* errorDetails.detail || errorDetails.message || `HTTP ${response.status}`
ErrorMessage(errorDetails, status) ==
    IF Has(errorDetails, "detail") /\ Truthy(errorDetails.detail)
      THEN errorDetails.detail
      ELSE IF Has(errorDetails, "message") /\ Truthy(errorDetails.message)
        THEN errorDetails.message
        ELSE HttpStatusLabel(status)

\* mutant: an unparseable body gives no fallback message
ErrorDetailsNoFallback(response) ==
    LET parsed == ResponseJson(response) IN
    IF parsed.state = "fulfilled"
      THEN parsed.value
      ELSE [message |-> ""]

\* the inner try/catch around response.json() of a non-success response
ErrorDetails(response) ==
    LET parsed == ResponseJson(response) IN
    IF parsed.state = "fulfilled"
      THEN parsed.value
      ELSE [message |-> response.statusText]

\* the body of makeRequest's outer try block
TryRequest(outcome) ==
    IF outcome.kind = "rejected"
      THEN Rejected(outcome.reason)
      ELSE LET response == outcome.response IN
           IF ~ResponseOk(response)
             THEN LET errorDetails == ErrorDetails(response) IN
                  Rejected(PrivacyApiError(
                      ErrorMessage(errorDetails, response.status),
                      Num(response.status), errorDetails))
             ELSE ResponseJson(response)

\* mutant: the catch block wraps whatever it catches
CatchRequestAlwaysWraps(thrown) ==
    PrivacyApiError(
        IF InstanceOfError(thrown) THEN thrown.message
                                   ELSE "Network error occurred",
        Undefined, Undefined)

\* the outer catch block
CatchRequest(thrown) ==
    IF InstanceOfPrivacyApiError(thrown)
      THEN thrown
      ELSE PrivacyApiError(
               IF InstanceOfError(thrown) THEN thrown.message
                                          ELSE "Network error occurred",
               Undefined, Undefined)

makeRequest(endpoint, outcome) ==
    LET tried == TryRequest(outcome) IN
    IF tried.state = "rejected"
      THEN Rejected(CatchRequest(tried.value))
      ELSE tried

getHealth(outcome) == makeRequest("/", outcome)
getCategories(outcome) == makeRequest("/categories", outcome)
predictPrivacy(outcome) == makeRequest("/predict", outcome)
getDemoPredictRequest(outcome) == makeRequest("/predict/demo", outcome)

(***************************************************************************)
(* The four request hooks.  One behaviour follows one hook instance.       *)
(* A trigger runs synchronously up to its await; the continuation runs     *)
(* when the client call settles, with the network outcome chosen then.     *)
(***************************************************************************)
Hooks == {"useApiHealth", "useCategories", "usePrivacyPrediction", "useDemoPredict"}

NoCall == [net |-> Null, client |-> Null, returned |-> Null]

Started ==
    /\ pending < MaxPending
    /\ pending' = pending + 1
    /\ inFlight' = inFlight + 1
    /\ overlapped' = (pending > 0)
    /\ UNCHANGED <<hook, lastSettled>>

\* mutant: a completed call leaves a request in flight, as a retry would
SettledAndRetried(outcome, client, returned) ==
    /\ pending > 0
    /\ pending' = pending - 1
    /\ inFlight' = inFlight
    /\ lastSettled' = [net |-> outcome, client |-> client, returned |-> returned]
    /\ UNCHANGED <<hook, overlapped>>

Settled(outcome, client, returned) ==
    /\ pending > 0
    /\ pending' = pending - 1
    /\ inFlight' = inFlight - 1
    /\ lastSettled' = [net |-> outcome, client |-> client, returned |-> returned]
    /\ UNCHANGED <<hook, overlapped>>

\* mutant: checkHealth without setLoading(true)
checkHealthNotLoading ==
    /\ hook = "useApiHealth"
    /\ Started
    /\ error' = Null
    /\ UNCHANGED <<data, loading>>
    /\ UNCHANGED <<formVars, historyVars, pageVars, viewVars>>

checkHealth ==
    /\ hook = "useApiHealth"
    /\ Started
    /\ loading' = TRUE
    /\ error' = Null
    /\ UNCHANGED data
    /\ UNCHANGED <<formVars, historyVars, pageVars, viewVars>>

checkHealthSettles ==
    \E outcome \in FetchOutcomes :
        LET result == getHealth(outcome) IN
        /\ hook = "useApiHealth"
        /\ Settled(outcome, result, Fulfilled(Undefined))
        /\ IF result.state = "fulfilled"
             THEN data' = result.value /\ UNCHANGED error
             ELSE error' = result.value /\ UNCHANGED data
        /\ loading' = FALSE
        /\ UNCHANGED <<formVars, historyVars, pageVars, viewVars>>

fetchCategories ==
    /\ hook = "useCategories"
    /\ Started
    /\ loading' = TRUE
    /\ error' = Null
    /\ UNCHANGED data
    /\ UNCHANGED <<formVars, historyVars, pageVars, viewVars>>

fetchCategoriesSettles ==
    \E outcome \in FetchOutcomes :
        LET result == getCategories(outcome) IN
        /\ hook = "useCategories"
        /\ Settled(outcome, result, Fulfilled(Undefined))
        /\ IF result.state = "fulfilled"
             THEN data' = result.value /\ UNCHANGED error
             ELSE error' = result.value /\ UNCHANGED data
        /\ loading' = FALSE
        /\ UNCHANGED <<formVars, historyVars, pageVars, viewVars>>

\* mutant: predict without setError(null)
predictCalledKeepsError ==
    /\ hook = "usePrivacyPrediction"
    /\ Started
    /\ loading' = TRUE
    /\ UNCHANGED error
    /\ data' = Null

\* predict up to its await, on the state of the hook
predictCalled ==
    /\ hook = "usePrivacyPrediction"
    /\ Started
    /\ loading' = TRUE
    /\ error' = Null
    /\ data' = Null

\* mutant: predict without setData(null)
predictKeepsData ==
    /\ hook = "usePrivacyPrediction"
    /\ Started
    /\ loading' = TRUE
    /\ error' = Null
    /\ UNCHANGED data
    /\ UNCHANGED <<formVars, historyVars, pageVars, viewVars>>

predict ==
    /\ predictCalled
    /\ UNCHANGED <<formVars, historyVars, pageVars, viewVars>>

\* predict from its await on, on the state of the hook
predictResumed(outcome) ==
    LET result == predictPrivacy(outcome) IN
    /\ hook = "usePrivacyPrediction"
    /\ Settled(outcome, result, result)
    /\ IF result.state = "fulfilled"
         THEN data' = result.value /\ UNCHANGED error
         ELSE error' = result.value /\ UNCHANGED data
    /\ loading' = FALSE

\* mutant: the continuation of predict clears the slot it does not write
predictSettlesClearsOther ==
    \E outcome \in FetchOutcomes :
        LET result == predictPrivacy(outcome) IN
        /\ hook = "usePrivacyPrediction"
        /\ Settled(outcome, result, result)
        /\ IF result.state = "fulfilled"
             THEN data' = result.value /\ error' = Null
             ELSE error' = result.value /\ data' = Null
        /\ loading' = FALSE
        /\ UNCHANGED <<formVars, historyVars, pageVars, viewVars>>

predictSettles ==
    \E outcome \in FetchOutcomes :
        /\ predictResumed(outcome)
        /\ UNCHANGED <<formVars, historyVars, pageVars, viewVars>>

getDemoPredict ==
    /\ hook = "useDemoPredict"
    /\ Started
    /\ loading' = TRUE
    /\ error' = Null
    /\ UNCHANGED data
    /\ UNCHANGED <<formVars, historyVars, pageVars, viewVars>>

\* mutant: getDemoPredict swallows the error instead of re-throwing it
getDemoPredictSettlesSwallows ==
    \E outcome \in FetchOutcomes :
        LET result == getDemoPredictRequest(outcome) IN
        /\ hook = "useDemoPredict"
        /\ Settled(outcome, result,
                   IF result.state = "fulfilled" THEN result ELSE Fulfilled(Undefined))
        /\ IF result.state = "fulfilled"
             THEN data' = result.value /\ UNCHANGED error
             ELSE error' = result.value /\ UNCHANGED data
        /\ loading' = FALSE
        /\ UNCHANGED <<formVars, historyVars, pageVars, viewVars>>

getDemoPredictSettles ==
    \E outcome \in FetchOutcomes :
        LET result == getDemoPredictRequest(outcome) IN
        /\ hook = "useDemoPredict"
        /\ Settled(outcome, result, result)
        /\ IF result.state = "fulfilled"
             THEN data' = result.value /\ UNCHANGED error
             ELSE error' = result.value /\ UNCHANGED data
        /\ loading' = FALSE
        /\ UNCHANGED <<formVars, historyVars, pageVars, viewVars>>

InitHook ==
    /\ hook \in Hooks
    /\ data = Null
    /\ loading = FALSE
    /\ error = Null
    /\ pending = 0
    /\ inFlight = 0
    /\ overlapped = FALSE
    /\ lastSettled = NoCall

(***************************************************************************)
(* useAppForm                                                              *)
(***************************************************************************)
MaxPermission == 10
MaxBinaryPermission == 5
MaxOtherPermission == 50

Whitespace == {" ", "\t"}

RECURSIVE trimStart(_)
trimStart(s) ==
    IF s # <<>> /\ Head(s) \in Whitespace THEN trimStart(Tail(s)) ELSE s

RECURSIVE trimEnd(_)
trimEnd(s) ==
    IF s # <<>> /\ s[Len(s)] \in Whitespace
      THEN trimEnd(SubSeq(s, 1, Len(s) - 1))
      ELSE s

\* String.prototype.trim
trim(s) == trimEnd(trimStart(s))

FlagFields == {"free", "has_ads", "has_iap", "is_game", "is_social"}

\* the permissionFields array of validateForm
permissionFields ==
    {"perm_location", "perm_contacts", "perm_phone", "perm_sms",
     "perm_storage", "perm_calendar", "perm_network", "perm_device_info",
     "perm_system"}

binaryFields == {"perm_camera", "perm_microphone", "perm_accounts"}

PermFields == permissionFields \cup binaryFields \cup {"perm_other"}

AppDataFields == {"app_name", "category"} \cup FlagFields \cup PermFields

\* the object literal of useState and of resetForm, before ...initialData
DefaultAppData ==
    [f \in AppDataFields |->
        CASE f = "app_name" -> <<>>
          [] f = "category" -> ""
          [] f = "free" -> TRUE
          [] f \in FlagFields \ {"free"} -> FALSE
          [] f = "perm_network" -> 1
          [] OTHER -> 0]

\* { ...base, ...over }
Spread(base, over) ==
    [f \in DOMAIN base \cup DOMAIN over |->
        IF f \in DOMAIN over THEN over[f] ELSE base[f]]

UpperBound(f) ==
    IF f \in permissionFields THEN MaxPermission
    ELSE IF f \in binaryFields THEN MaxBinaryPermission
    ELSE MaxOtherPermission

AppNames == { <<>>, <<" ">>, <<"a">>, <<" ", "a", "\t">> }
Categories == {"", "Social"}

\* values an edit can give a field: both sides of both ends of its range
FieldValues(f) ==
    CASE f = "app_name" -> AppNames
      [] f = "category" -> Categories
      [] f \in FlagFields -> BOOLEAN
      [] OTHER -> {-1, 0, UpperBound(f), UpperBound(f) + 1}

NoFields == [f \in {} |-> 0]

AtUpperBounds ==
    [f \in PermFields \cup {"app_name", "category"} |->
        CASE f = "app_name" -> <<" ", "a", "\t">>
          [] f = "category" -> "Social"
          [] OTHER -> UpperBound(f)]

AboveUpperBounds ==
    [f \in PermFields \cup {"app_name"} |->
        CASE f = "app_name" -> <<" ">>
          [] OTHER -> UpperBound(f) + 1]

InitialDatas == {NoFields, AtUpperBounds, AboveUpperBounds}

Updates ==
    { [app_name |-> <<"a">>, category |-> "Social"],
      [perm_camera |-> 6, perm_other |-> 51, perm_location |-> 11],
      [perm_camera |-> 0, perm_other |-> 0, perm_location |-> 0, perm_network |-> -1] }

NoErrors == [f \in {} |-> ""]

\* a form operation as recorded in lastFormOp
FormOp(op, fields) == [op |-> op, fields |-> fields, before |-> errors]

\* mutant: updateField leaves the edited field's error in place
updateFieldKeepsError ==
    \E field \in AppDataFields :
      \E value \in FieldValues(field) :
        /\ edits < MaxEdits
        /\ edits' = edits + 1
        /\ formData' = [formData EXCEPT ![field] = value]
        /\ validated' = [validated EXCEPT !.current = FALSE]
        /\ lastFormOp' = FormOp("updateField", {field})
        /\ UNCHANGED <<initialData, errors>>
        /\ UNCHANGED <<apiVars, historyVars, pageVars, viewVars>>

updateField ==
    \E field \in AppDataFields :
      \E value \in FieldValues(field) :
        /\ edits < MaxEdits
        /\ edits' = edits + 1
        /\ formData' = [formData EXCEPT ![field] = value]
        /\ errors' = IF Has(errors, field) /\ Truthy(errors[field])
                       THEN [f \in DOMAIN errors \ {field} |-> errors[f]]
                       ELSE errors
        /\ validated' = [validated EXCEPT !.current = FALSE]
        /\ lastFormOp' = FormOp("updateField", {field})
        /\ UNCHANGED initialData
        /\ UNCHANGED <<apiVars, historyVars, pageVars, viewVars>>

updateMultipleFields ==
    \E updates \in Updates :
        /\ edits < MaxEdits
        /\ edits' = edits + 1
        /\ formData' = Spread(formData, updates)
        /\ validated' = [validated EXCEPT !.current = FALSE]
        /\ lastFormOp' = FormOp("updateMultipleFields", DOMAIN updates)
        /\ UNCHANGED <<initialData, errors>>
        /\ UNCHANGED <<apiVars, historyVars, pageVars, viewVars>>

RangeMessage(f) ==
    IF f \in permissionFields THEN "Value must be between 0 and 10"
    ELSE IF f \in binaryFields THEN "Value must be between 0 and 5"
    ELSE "Value must be between 0 and 50"

\* mutant: the upper ends of the ranges are exclusive
ViolatesExclusive(form, f) ==
    CASE f = "app_name" -> trim(form.app_name) = <<>>
      [] f = "category" -> form.category = ""
      [] f \in permissionFields -> form[f] < 0 \/ form[f] >= MaxPermission
      [] f \in binaryFields -> form[f] < 0 \/ form[f] >= MaxBinaryPermission
      [] f = "perm_other" -> form.perm_other < 0 \/ form.perm_other >= MaxOtherPermission
      [] OTHER -> FALSE

\* the checks validateForm makes on one field
Violates(form, f) ==
    CASE f = "app_name" -> trim(form.app_name) = <<>>
      [] f = "category" -> form.category = ""
      [] f \in permissionFields -> form[f] < 0 \/ form[f] > MaxPermission
      [] f \in binaryFields -> form[f] < 0 \/ form[f] > MaxBinaryPermission
      [] f = "perm_other" -> form.perm_other < 0 \/ form.perm_other > MaxOtherPermission
      [] OTHER -> FALSE

\* newErrors as validateForm builds it
NewErrors(form) ==
    [f \in {g \in AppDataFields : Violates(form, g)} |->
        CASE f = "app_name" -> "App name is required"
          [] f = "category" -> "App category is required"
          [] OTHER -> RangeMessage(f)]

\* mutant: validateForm adds the new errors to the ones already recorded
validateFormKeepsErrors ==
    LET newErrors == Spread(errors, NewErrors(formData)) IN
    /\ errors' = newErrors
    /\ validated' = [current |-> TRUE, returned |-> (DOMAIN newErrors = {}),
                     replaced |-> errors]
    /\ lastFormOp' = FormOp("validateForm", {})
    /\ UNCHANGED <<initialData, formData, edits>>
    /\ UNCHANGED <<apiVars, historyVars, pageVars, viewVars>>

validateForm ==
    LET newErrors == NewErrors(formData) IN
    /\ errors' = newErrors
    /\ validated' = [current |-> TRUE, returned |-> (DOMAIN newErrors = {}),
                     replaced |-> errors]
    /\ lastFormOp' = FormOp("validateForm", {})
    /\ UNCHANGED <<initialData, formData, edits>>
    /\ UNCHANGED <<apiVars, historyVars, pageVars, viewVars>>

\* mutant: resetForm goes back to the bare object literal
resetFormToLiteral ==
    /\ formData' = DefaultAppData
    /\ errors' = NoErrors
    /\ validated' = [validated EXCEPT !.current = FALSE]
    /\ lastFormOp' = FormOp("resetForm", {})
    /\ UNCHANGED <<initialData, edits>>
    /\ UNCHANGED <<apiVars, historyVars, pageVars, viewVars>>

resetForm ==
    /\ formData' = Spread(DefaultAppData, initialData)
    /\ errors' = NoErrors
    /\ validated' = [validated EXCEPT !.current = FALSE]
    /\ lastFormOp' = FormOp("resetForm", {})
    /\ UNCHANGED <<initialData, edits>>
    /\ UNCHANGED <<apiVars, historyVars, pageVars, viewVars>>

\* mutant: isValid does not look at the errors
isValidWhateverErrors ==
    /\ trim(formData.app_name) # <<>>
    /\ formData.category # ""

\* Object.keys(errors).length === 0 && formData.app_name.trim() && formData.category
\* (the JavaScript value is false, "" or the category; this is its truthiness)
isValid ==
    /\ DOMAIN errors = {}
    /\ trim(formData.app_name) # <<>>
    /\ formData.category # ""

highRiskFields ==
    {"perm_location", "perm_contacts", "perm_phone", "perm_microphone",
     "perm_camera"}

\* mutant: a field counts as soon as it differs from zero
hasHighRiskPermissionsNonZero ==
    \/ formData.perm_location # 0
    \/ formData.perm_contacts # 0
    \/ formData.perm_phone # 0
    \/ formData.perm_microphone # 0
    \/ formData.perm_camera # 0

hasHighRiskPermissions ==
    \/ formData.perm_location > 0
    \/ formData.perm_contacts > 0
    \/ formData.perm_phone > 0
    \/ formData.perm_microphone > 0
    \/ formData.perm_camera > 0

InitForm ==
    /\ initialData \in InitialDatas
    /\ formData = Spread(DefaultAppData, initialData)
    /\ errors = NoErrors
    /\ validated = [current |-> FALSE, returned |-> FALSE, replaced |-> NoErrors]
    /\ edits = 0
    /\ lastFormOp = [op |-> "none", fields |-> {}, before |-> NoErrors]

(***************************************************************************)
(* usePredictionHistory                                                    *)
(***************************************************************************)
HistoryKept == 9

\* Array.prototype.slice(start, end) for 0 <= start <= end
slice(array, start, end) ==
    SubSeq(array, start + 1, IF end < Len(array) THEN end ELSE Len(array))

\* Array.prototype.filter with the predicate p.timestamp !== timestamp
filterOut(array, timestamp) ==
    LET Keep(p) == p.timestamp # timestamp IN SelectSeq(array, Keep)

\* A PredictionResult of the history: its timestamp and, standing for the
\* rest of the object, the serial number of the addition that brought it, so
\* that two results added separately are two objects even when their
\* timestamps are equal.
Entry(timestamp, serial) == [timestamp |-> timestamp, serial |-> serial]

\* the timestamp of a new result: one not used before, or the one of the
\* newest entry of the list
NewTimestamps ==
    {added + 1} \cup
    (IF predictions # <<>> /\ irregular < MaxIrregular
       THEN {predictions[1].timestamp} ELSE {})

\* the timestamps removePrediction is called with: those of the newest, the
\* second and the oldest entry, and one that no entry has
RemovedTimestamps ==
    {0} \cup {predictions[i].timestamp :
                 i \in {1, 2, Len(predictions)} \cap DOMAIN predictions}

HistoryOp(op, arg) == [op |-> op, arg |-> arg, before |-> predictions]

\* mutant: addPrediction keeps ten of the previous entries
addPredictionKeepsTen ==
    \E timestamp \in NewTimestamps :
        LET prediction == Entry(timestamp, added + 1) IN
        /\ added < MaxAdded
        /\ added' = added + 1
        /\ irregular' = IF timestamp = added + 1 THEN irregular
                                                  ELSE irregular + 1
        /\ predictions' = <<prediction>> \o slice(predictions, 0, HistoryKept + 1)
        /\ surviving' = <<prediction>> \o surviving
        /\ lastHistoryOp' = HistoryOp("addPrediction", prediction)
        /\ UNCHANGED <<apiVars, formVars, pageVars, viewVars>>

addPrediction ==
    \E timestamp \in NewTimestamps :
        LET prediction == Entry(timestamp, added + 1) IN
        /\ added < MaxAdded
        /\ added' = added + 1
        /\ irregular' = IF timestamp = added + 1 THEN irregular
                                                  ELSE irregular + 1
        /\ predictions' = <<prediction>> \o slice(predictions, 0, HistoryKept)
        /\ surviving' = <<prediction>> \o surviving
        /\ lastHistoryOp' = HistoryOp("addPrediction", prediction)
        /\ UNCHANGED <<apiVars, formVars, pageVars, viewVars>>

clearHistory ==
    /\ predictions' = <<>>
    /\ surviving' = <<>>
    /\ lastHistoryOp' = HistoryOp("clearHistory", [timestamp |-> 0])
    /\ UNCHANGED <<added, irregular>>
    /\ UNCHANGED <<apiVars, formVars, pageVars, viewVars>>

\* mutant: removePrediction removes the newest entry with the timestamp only
removePredictionRemovesFirst ==
    \E timestamp \in RemovedTimestamps :
        LET hits == {i \in DOMAIN predictions :
                       predictions[i].timestamp = timestamp}
            first == CHOOSE i \in hits : \A j \in hits : i <= j
        IN
        /\ irregular < MaxIrregular
        /\ irregular' = irregular + 1
        /\ predictions' =
              IF hits = {} THEN predictions
              ELSE SubSeq(predictions, 1, first - 1)
                     \o SubSeq(predictions, first + 1, Len(predictions))
        /\ surviving' = filterOut(surviving, timestamp)
        /\ lastHistoryOp' = HistoryOp("removePrediction",
                                      [timestamp |-> timestamp])
        /\ UNCHANGED added
        /\ UNCHANGED <<apiVars, formVars, pageVars, viewVars>>

removePrediction ==
    \E timestamp \in RemovedTimestamps :
        /\ irregular < MaxIrregular
        /\ irregular' = irregular + 1
        /\ predictions' = filterOut(predictions, timestamp)
        /\ surviving' = filterOut(surviving, timestamp)
        /\ lastHistoryOp' = HistoryOp("removePrediction",
                                      [timestamp |-> timestamp])
        /\ UNCHANGED added
        /\ UNCHANGED <<apiVars, formVars, pageVars, viewVars>>

InitHistory ==
    /\ predictions = <<>>
    /\ surviving = <<>>
    /\ added = 0
    /\ irregular = 0
    /\ lastHistoryOp = [op |-> "none", arg |-> [timestamp |-> 0],
                        before |-> <<>>]

(***************************************************************************)
(* The calculator surfaces: Permissions Checker (pages/PermissionsChecker),*)
(* Simple Privacy Checker (components/About) and the interactive Hero.     *)
(* One behaviour follows one surface.  An event happens only when the      *)
(* control that raises it is not disabled.                                 *)
(***************************************************************************)
Surfaces == {"PermissionsChecker", "SimplePrivacyChecker", "Hero"}

permissionKeys ==
    <<"perm_location", "perm_camera", "perm_microphone", "perm_contacts",
      "perm_phone", "perm_sms", "perm_storage", "perm_calendar",
      "perm_network", "perm_device_info", "perm_accounts", "perm_system">>

\* the argument of useState<Permission[]>: only Network Access is enabled
InitialPermissions ==
    [i \in DOMAIN permissionKeys |->
        [key |-> permissionKeys[i],
         enabled |-> (permissionKeys[i] = "perm_network")]]

InitialSwitches ==
    [hasAds |-> FALSE, hasIAP |-> FALSE, isFree |-> TRUE,
     isGame |-> FALSE, isSocial |-> FALSE]

Event(op, index) == [op |-> op, index |-> index]

\* the loading flag the surface renders with
Busy == IF surface = "Hero" THEN isLoading ELSE loading

\* mutant: the name input is never disabled
InputNeverDisabled == FALSE

\* disabled={loading} on the name input of About and Hero
InputDisabled == surface # "PermissionsChecker" /\ Busy

\* disabled={loading || !appName.trim()}
ButtonDisabled == Busy \/ trim(appName) = <<>>

\* setAppName / setAppInput, from the onChange of the name input
setAppName ==
    \E value \in AppNames :
        /\ ~InputDisabled
        /\ inputs < MaxInputs
        /\ inputs' = inputs + 1
        /\ appName' = value
        /\ lastEvent' = Event("setAppName", 0)
        /\ UNCHANGED <<surface, category, switches, permissions, heroVars,
                       request, handled>>
        /\ UNCHANGED <<apiVars, formVars, historyVars, viewVars>>

setCategory ==
    \E value \in Categories :
        /\ surface = "PermissionsChecker"
        /\ inputs < MaxInputs
        /\ inputs' = inputs + 1
        /\ category' = value
        /\ lastEvent' = Event("setCategory", 0)
        /\ UNCHANGED <<surface, appName, switches, permissions, heroVars,
                       request, handled>>
        /\ UNCHANGED <<apiVars, formVars, historyVars, viewVars>>

\* setIsFree, setHasAds, setHasIAP, setIsGame, setIsSocial
setSwitch ==
    \E name \in DOMAIN InitialSwitches :
      \E checked \in BOOLEAN :
        /\ surface = "PermissionsChecker"
        /\ inputs < MaxInputs
        /\ inputs' = inputs + 1
        /\ switches' = [switches EXCEPT ![name] = checked]
        /\ lastEvent' = Event("setSwitch", 0)
        /\ UNCHANGED <<surface, appName, category, permissions, heroVars,
                       request, handled>>
        /\ UNCHANGED <<apiVars, formVars, historyVars, viewVars>>

\* mutant: togglePermission also switches Network Access off
togglePermissionDropsNetwork ==
    \E index \in DOMAIN permissions :
        /\ surface = "PermissionsChecker"
        /\ inputs < MaxInputs
        /\ inputs' = inputs + 1
        /\ permissions' =
              [i \in DOMAIN permissions |->
                 IF i = index
                   THEN [permissions[i] EXCEPT !.enabled = ~permissions[i].enabled]
                   ELSE [permissions[i] EXCEPT !.enabled =
                           @ /\ permissions[i].key # "perm_network"]]
        /\ lastEvent' = Event("togglePermission", index)
        /\ UNCHANGED <<surface, appName, category, switches, heroVars,
                       request, handled>>
        /\ UNCHANGED <<apiVars, formVars, historyVars, viewVars>>

\* the copy of the array shares its entries with the previous state; the
\* previous array is not read again after setPermissions
togglePermission ==
    \E index \in DOMAIN permissions :
        /\ surface = "PermissionsChecker"
        /\ inputs < MaxInputs
        /\ inputs' = inputs + 1
        /\ permissions' =
              [permissions EXCEPT ![index].enabled = ~permissions[index].enabled]
        /\ lastEvent' = Event("togglePermission", index)
        /\ UNCHANGED <<surface, appName, category, switches, heroVars,
                       request, handled>>
        /\ UNCHANGED <<apiVars, formVars, historyVars, viewVars>>

\* permissions.find(p => p.key === key)?.enabled ? 1 : 0
PermissionValue(key) ==
    LET found == {i \in DOMAIN permissions : permissions[i].key = key} IN
    IF found # {} /\ permissions[CHOOSE i \in found : \A j \in found : i <= j].enabled
      THEN 1 ELSE 0

\* mutant: perm_camera is read from the Microphone Access toggle
PermissionsAppDataCameraFromMicrophone ==
    [f \in AppDataFields |->
        CASE f = "app_name" -> appName
          [] f = "category" -> category
          [] f = "free" -> switches.isFree
          [] f = "has_ads" -> switches.hasAds
          [] f = "has_iap" -> switches.hasIAP
          [] f = "is_game" -> switches.isGame
          [] f = "is_social" -> switches.isSocial
          [] f = "perm_other" -> 0
          [] f = "perm_camera" -> PermissionValue("perm_microphone")
          [] OTHER -> PermissionValue(f)]

\* the appData of handleCalculateRisk
PermissionsAppData ==
    [f \in AppDataFields |->
        CASE f = "app_name" -> appName
          [] f = "category" -> category
          [] f = "free" -> switches.isFree
          [] f = "has_ads" -> switches.hasAds
          [] f = "has_iap" -> switches.hasIAP
          [] f = "is_game" -> switches.isGame
          [] f = "is_social" -> switches.isSocial
          [] f = "perm_other" -> 0
          [] OTHER -> PermissionValue(f)]

\* handleCalculateRisk up to its await
handleCalculateRisk ==
    IF trim(appName) = <<>>
      THEN /\ handled' = Fulfilled(Undefined)
           /\ UNCHANGED <<apiVars, heroVars, request>>
      ELSE /\ handled' = Null
           /\ request' = PermissionsAppData
           /\ predictCalled
           /\ UNCHANGED heroVars

\* mutant: the basic profile is sent with Network Access off
SimpleAppDataNoNetwork ==
    [f \in AppDataFields |->
        CASE f = "app_name" -> trim(appName)
          [] f = "category" -> "Social"
          [] f = "free" -> TRUE
          [] f \in FlagFields \ {"free"} -> FALSE
          [] OTHER -> 0]

\* the basicAppData of handleSearch
SimpleAppData ==
    [f \in AppDataFields |->
        CASE f = "app_name" -> trim(appName)
          [] f = "category" -> "Social"
          [] f = "free" -> TRUE
          [] f \in FlagFields \ {"free"} -> FALSE
          [] f = "perm_network" -> 1
          [] OTHER -> 0]

\* handleSearch up to its await
handleSearch ==
    IF trim(appName) = <<>>
      THEN /\ handled' = Fulfilled(Undefined)
           /\ UNCHANGED <<apiVars, heroVars, request>>
      ELSE /\ handled' = Null
           /\ request' = SimpleAppData
           /\ predictCalled
           /\ UNCHANGED heroVars

\* mutant: checkPrivacyScore tests the input without trimming it
checkPrivacyScoreUntrimmed ==
    IF appName = <<>>
      THEN /\ handled' = Fulfilled(Undefined)
           /\ UNCHANGED <<apiVars, heroVars, request>>
      ELSE /\ handled' = Null
           /\ isLoading' = TRUE
           /\ heroResult' = Null
           /\ request' = [app_name |-> trim(appName)]
           /\ Started
           /\ UNCHANGED <<data, loading, error>>

\* checkPrivacyScore up to its await
checkPrivacyScore ==
    IF trim(appName) = <<>>
      THEN /\ handled' = Fulfilled(Undefined)
           /\ UNCHANGED <<apiVars, heroVars, request>>
      ELSE /\ handled' = Null
           /\ isLoading' = TRUE
           /\ heroResult' = Null
           /\ request' = [app_name |-> trim(appName)]
           /\ Started
           /\ UNCHANGED <<data, loading, error>>

\* the handler behind the button and the Enter key of the surface
Submit ==
    CASE surface = "PermissionsChecker" -> handleCalculateRisk
      [] surface = "SimplePrivacyChecker" -> handleSearch
      [] surface = "Hero" -> checkPrivacyScore

\* onClick of the submit button
clickSubmit ==
    /\ ~ButtonDisabled
    /\ Submit
    /\ lastEvent' = Event("clickSubmit", 0)
    /\ UNCHANGED <<surface, inputVars, inputs>>
    /\ UNCHANGED <<formVars, historyVars, viewVars>>

\* handleKeyPress of About and Hero with the Enter key
handleKeyPress ==
    /\ surface \in {"SimplePrivacyChecker", "Hero"}
    /\ ~InputDisabled
    /\ Submit
    /\ lastEvent' = Event("pressEnter", 0)
    /\ UNCHANGED <<surface, inputVars, inputs>>
    /\ UNCHANGED <<formVars, historyVars, viewVars>>

\* mutant: the handlers await predict outside a try block
CaughtNothing(awaited) ==
    IF awaited.state = "rejected" THEN awaited ELSE Fulfilled(Undefined)

\* try { await predict(...) } catch (err) { console.error(...) }: how the
\* handler completes, given how the awaited promise settles
Caught(awaited) == Fulfilled(Undefined)

\* handleCalculateRisk and handleSearch from their await on: a rejection of
\* predict is caught and logged
predictAwaited ==
    \E outcome \in FetchOutcomes :
        /\ surface \in {"PermissionsChecker", "SimplePrivacyChecker"}
        /\ predictResumed(outcome)
        /\ handled' = Caught(predictPrivacy(outcome))
        /\ request' = Null
        /\ lastEvent' = Event("settled", 0)
        /\ UNCHANGED <<surface, inputVars, heroVars, inputs>>
        /\ UNCHANGED <<formVars, historyVars, viewVars>>

ConnectMessage ==
    "Unable to connect to privacy service. Please ensure the backend is running."

\* mutant: a response whose body is not JSON yields the fallback message
HeroResultNoCatch(outcome) ==
    IF outcome.kind = "rejected"
      THEN [error |-> ConnectMessage]
      ELSE
        LET response == outcome.response
            body == ResponseJson(response)
        IN
        IF body.state = "rejected"
          THEN [error |-> "Failed to check privacy score"]
        ELSE IF ResponseOk(response)
          THEN body.value
        ELSE [error |-> IF Has(body.value, "detail") /\ Truthy(body.value.detail)
                          THEN body.value.detail
                          ELSE "Failed to check privacy score"]

\* the value checkPrivacyScore gives setResult: a rejection of fetch or of
\* response.json() is caught by the one catch block
HeroResult(outcome) ==
    IF outcome.kind = "rejected"
      THEN [error |-> ConnectMessage]
      ELSE
        LET response == outcome.response
            body == ResponseJson(response)
        IN
        IF body.state = "rejected"
          THEN [error |-> ConnectMessage]
        ELSE IF ResponseOk(response)
          THEN body.value
        ELSE [error |-> IF Has(body.value, "detail") /\ Truthy(body.value.detail)
                          THEN body.value.detail
                          ELSE "Failed to check privacy score"]

\* checkPrivacyScore from its await on
checkPrivacyScoreResumes ==
    \E outcome \in FetchOutcomes :
        /\ surface = "Hero"
        /\ Settled(outcome, Null, Fulfilled(Undefined))
        /\ heroResult' = HeroResult(outcome)
        /\ isLoading' = FALSE
        /\ handled' = Fulfilled(Undefined)
        /\ request' = Null
        /\ lastEvent' = Event("settled", 0)
        /\ UNCHANGED <<data, loading, error>>
        /\ UNCHANGED <<surface, inputVars, inputs>>
        /\ UNCHANGED <<formVars, historyVars, viewVars>>

\* mutant: "Check Another App" also drops the prediction
checkAnotherAppClearsResult ==
    /\ surface = "SimplePrivacyChecker"
    /\ data # Null
    /\ appName' = <<>>
    /\ data' = Null
    /\ lastEvent' = Event("checkAnotherApp", 0)
    /\ UNCHANGED <<surface, category, switches, permissions, heroVars,
                   request, inputs, handled>>
    /\ UNCHANGED <<hook, loading, error, pending, inFlight, overlapped,
                   lastSettled>>
    /\ UNCHANGED <<formVars, historyVars, viewVars>>

\* onClick of "Check Another App", rendered while a prediction is shown
checkAnotherApp ==
    /\ surface = "SimplePrivacyChecker"
    /\ data # Null
    /\ appName' = <<>>
    /\ lastEvent' = Event("checkAnotherApp", 0)
    /\ UNCHANGED <<surface, category, switches, permissions, heroVars,
                   request, inputs, handled>>
    /\ UNCHANGED <<apiVars, formVars, historyVars, viewVars>>

\* {error && <Alert>...{error?.message || 'An error occurred'}...</Alert>}
ErrorBannerShown == error # Null

ErrorBannerText ==
    IF Has(error, "message") /\ Truthy(error.message)
      THEN error.message ELSE "An error occurred"

\* {prediction && ...}
ResultPanelShown == data # Null

InitPage ==
    /\ surface \in Surfaces
    /\ appName = <<>>
    /\ category = "Social"
    /\ switches = InitialSwitches
    /\ permissions = InitialPermissions
    /\ isLoading = FALSE
    /\ heroResult = Null
    /\ request = Null
    /\ lastEvent = Event("none", 0)
    /\ inputs = 0
    /\ handled = Null

(***************************************************************************)
(* Pure functions of the views and of the client                           *)
(***************************************************************************)
InitView ==
    /\ riskView = Null
    /\ factorView = Null
    /\ fetchCall = Null

\* a className is kept as the sequence of the class names it lists
\* values of prediction.privacy_level that a response can carry
Levels == {"LOW", "MEDIUM", "HIGH", "CRITICAL", "low", "", "UNKNOWN"}

\* PermissionsChecker.tsx getRiskColor
getRiskColor(level) ==
    CASE level = "LOW" -> <<"text-green-600", "bg-green-100">>
      [] level = "MEDIUM" -> <<"text-yellow-600", "bg-yellow-100">>
      [] level = "HIGH" -> <<"text-orange-600", "bg-orange-100">>
      [] level = "CRITICAL" -> <<"text-red-600", "bg-red-100">>
      [] OTHER -> <<"text-gray-600", "bg-gray-100">>

\* PermissionsChecker.tsx getRiskIcon
getRiskIcon(level) ==
    CASE level = "LOW" ->
           [icon |-> "CheckCircle", className |-> <<"h-6", "w-6", "text-green-600">>]
      [] level = "MEDIUM" ->
           [icon |-> "Shield", className |-> <<"h-6", "w-6", "text-yellow-600">>]
      [] level = "HIGH" ->
           [icon |-> "AlertTriangle", className |-> <<"h-6", "w-6", "text-orange-600">>]
      [] level = "CRITICAL" ->
           [icon |-> "XCircle", className |-> <<"h-6", "w-6", "text-red-600">>]
      [] OTHER ->
           [icon |-> "Shield", className |-> <<"h-6", "w-6", "text-gray-600">>]

\* mutant: the Simple Privacy Checker paints HIGH as it paints CRITICAL
SimplePrivacyChecker_getRiskColorHighRed(level) ==
    CASE level = "LOW" -> <<"text-green-600", "bg-green-100">>
      [] level = "MEDIUM" -> <<"text-yellow-600", "bg-yellow-100">>
      [] level = "HIGH" -> <<"text-red-600", "bg-red-100">>
      [] level = "CRITICAL" -> <<"text-red-600", "bg-red-100">>
      [] OTHER -> <<"text-gray-600", "bg-gray-100">>

\* About.tsx getRiskColor
SimplePrivacyChecker_getRiskColor(level) ==
    CASE level = "LOW" -> <<"text-green-600", "bg-green-100">>
      [] level = "MEDIUM" -> <<"text-yellow-600", "bg-yellow-100">>
      [] level = "HIGH" -> <<"text-orange-600", "bg-orange-100">>
      [] level = "CRITICAL" -> <<"text-red-600", "bg-red-100">>
      [] OTHER -> <<"text-gray-600", "bg-gray-100">>

\* About.tsx getRiskIcon
SimplePrivacyChecker_getRiskIcon(level) ==
    CASE level = "LOW" ->
           [icon |-> "CheckCircle", className |-> <<"h-5", "w-5", "text-green-600">>]
      [] level = "MEDIUM" ->
           [icon |-> "Shield", className |-> <<"h-5", "w-5", "text-yellow-600">>]
      [] level = "HIGH" ->
           [icon |-> "AlertTriangle", className |-> <<"h-5", "w-5", "text-orange-600">>]
      [] level = "CRITICAL" ->
           [icon |-> "XCircle", className |-> <<"h-5", "w-5", "text-red-600">>]
      [] OTHER ->
           [icon |-> "Shield", className |-> <<"h-5", "w-5", "text-gray-600">>]

\* the result panel of either page is rendered for a prediction of some level
renderRiskLevel ==
    \E level \in Levels :
        /\ riskView' =
               [level |-> level,
                PermissionsChecker |->
                    [icon |-> getRiskIcon(level), badge |-> getRiskColor(level)],
                SimplePrivacyChecker |->
                    [icon |-> SimplePrivacyChecker_getRiskIcon(level),
                     badge |-> SimplePrivacyChecker_getRiskColor(level)]]
        /\ UNCHANGED <<apiVars, formVars, historyVars, pageVars,
                       factorView, fetchCall>>

\* a text is kept as the sequence of its characters
\* words that the key_risk_factors of a response are made of
Words ==
    {<<"L", "o", "c", "a", "t", "i", "o", "n">>,
     <<"C", "O", "N", "T", "A", "C", "T", "S">>,
     <<"C", "a", "m", "e", "r", "a">>,
     <<"m", "i", "c", "r", "o", "p", "h", "o", "n", "e">>,
     <<"S", "M", "S">>,
     <<"u", "p", "l", "o", "a", "d", "s">>,
     <<"P", "e", "r", "m", "i", "s", "s", "i", "o", "n">>,
     <<"s", "o", "c", "i", "a", "l">>,
     <<"P", "A", "Y", "M", "E", "N", "T">>,
     <<"H", "e", "a", "l", "t", "h">>,
     <<"d", "a", "t", "a">>}

Space == <<" ">>

\* words holding the second of two alternative keywords, used on their own
Alternatives ==
    {<<"M", "e", "s", "s", "a", "g", "e", "s">>,
     <<"A", "d", "v", "e", "r", "t", "i", "s", "e", "m", "e", "n", "t">>,
     <<"F", "i", "n", "a", "n", "c", "i", "a", "l">>}

\* key_risk_factors entries: one word, or two words with a space between
Factors ==
    Words \cup Alternatives
    \cup {first \o Space \o second : first \in Words, second \in Words}

UpperToLower ==
    "A" :> "a" @@ "B" :> "b" @@ "C" :> "c" @@ "D" :> "d" @@ "E" :> "e" @@
    "F" :> "f" @@ "G" :> "g" @@ "H" :> "h" @@ "I" :> "i" @@ "J" :> "j" @@
    "K" :> "k" @@ "L" :> "l" @@ "M" :> "m" @@ "N" :> "n" @@ "O" :> "o" @@
    "P" :> "p" @@ "Q" :> "q" @@ "R" :> "r" @@ "S" :> "s" @@ "T" :> "t" @@
    "U" :> "u" @@ "V" :> "v" @@ "W" :> "w" @@ "X" :> "x" @@ "Y" :> "y" @@
    "Z" :> "z"

\* String.prototype.toLowerCase
toLowerCase(text) ==
    [i \in 1..Len(text) |->
        IF text[i] \in DOMAIN UpperToLower THEN UpperToLower[text[i]] ELSE text[i]]

\* String.prototype.includes
includes(text, searchString) ==
    \E start \in 0..(Len(text) - Len(searchString)) :
        SubSeq(text, start + 1, start + Len(searchString)) = searchString

\* mutant: contact is tested before location
getIconContactFirst(factor) ==
    IF includes(toLowerCase(factor), <<"c", "o", "n", "t", "a", "c", "t">>)
    THEN "U+1F465"
    ELSE IF includes(toLowerCase(factor), <<"l", "o", "c", "a", "t", "i", "o", "n">>)
    THEN "U+1F4CD"
    ELSE IF includes(toLowerCase(factor), <<"c", "a", "m", "e", "r", "a">>)
    THEN "U+1F4F8"
    ELSE IF includes(toLowerCase(factor), <<"m", "i", "c", "r", "o", "p", "h", "o", "n", "e">>)
    THEN "U+1F3A4"
    ELSE IF (includes(toLowerCase(factor), <<"s", "m", "s">>)
            \/ includes(toLowerCase(factor), <<"m", "e", "s", "s", "a", "g", "e">>))
    THEN "U+1F4AC"
    ELSE IF (includes(toLowerCase(factor), <<"a", "d", "s">>)
            \/ includes(toLowerCase(factor), <<"a", "d", "v", "e", "r", "t", "i", "s", "e", "m", "e", "n", "t">>))
    THEN "U+1F3AF"
    ELSE IF includes(toLowerCase(factor), <<"p", "e", "r", "m", "i", "s", "s", "i", "o", "n">>)
    THEN "U+2699 U+FE0F"
    ELSE IF includes(toLowerCase(factor), <<"s", "o", "c", "i", "a", "l">>)
    THEN "U+1F465"
    ELSE IF (includes(toLowerCase(factor), <<"f", "i", "n", "a", "n", "c", "i", "a", "l">>)
            \/ includes(toLowerCase(factor), <<"p", "a", "y", "m", "e", "n", "t">>))
    THEN "U+1F4B3"
    ELSE IF includes(toLowerCase(factor), <<"h", "e", "a", "l", "t", "h">>)
    THEN "U+1F3E5"
    ELSE "U+26A0 U+FE0F"

\* About.tsx getIcon; a glyph is kept as the code points of its emoji
getIcon(factor) ==
    IF includes(toLowerCase(factor), <<"l", "o", "c", "a", "t", "i", "o", "n">>)
    THEN "U+1F4CD"
    ELSE IF includes(toLowerCase(factor), <<"c", "o", "n", "t", "a", "c", "t">>)
    THEN "U+1F465"
    ELSE IF includes(toLowerCase(factor), <<"c", "a", "m", "e", "r", "a">>)
    THEN "U+1F4F8"
    ELSE IF includes(toLowerCase(factor), <<"m", "i", "c", "r", "o", "p", "h", "o", "n", "e">>)
    THEN "U+1F3A4"
    ELSE IF (includes(toLowerCase(factor), <<"s", "m", "s">>)
            \/ includes(toLowerCase(factor), <<"m", "e", "s", "s", "a", "g", "e">>))
    THEN "U+1F4AC"
    ELSE IF (includes(toLowerCase(factor), <<"a", "d", "s">>)
            \/ includes(toLowerCase(factor), <<"a", "d", "v", "e", "r", "t", "i", "s", "e", "m", "e", "n", "t">>))
    THEN "U+1F3AF"
    ELSE IF includes(toLowerCase(factor), <<"p", "e", "r", "m", "i", "s", "s", "i", "o", "n">>)
    THEN "U+2699 U+FE0F"
    ELSE IF includes(toLowerCase(factor), <<"s", "o", "c", "i", "a", "l">>)
    THEN "U+1F465"
    ELSE IF (includes(toLowerCase(factor), <<"f", "i", "n", "a", "n", "c", "i", "a", "l">>)
            \/ includes(toLowerCase(factor), <<"p", "a", "y", "m", "e", "n", "t">>))
    THEN "U+1F4B3"
    ELSE IF includes(toLowerCase(factor), <<"h", "e", "a", "l", "t", "h">>)
    THEN "U+1F3E5"
    ELSE "U+26A0 U+FE0F"

\* the result panel of the Simple Privacy Checker lists a risk factor
renderRiskFactor ==
    \E factor \in Factors :
        /\ factorView' = [factor |-> factor, glyph |-> getIcon(factor)]
        /\ UNCHANGED <<apiVars, formVars, historyVars, pageVars,
                       riskView, fetchCall>>

\* the options the client's methods pass to makeRequest, and options that
\* carry headers; an object is kept as the function from its own keys
NoProperties == [key \in {} |-> Null]
JsonContentType == "Content-Type" :> "application/json"
CallerHeaders ==
    {NoProperties,
     "Authorization" :> "Bearer token",
     "Content-Type" :> "text/plain"}
Options ==
    {NoProperties,
     ("method" :> "POST") @@ ("body" :> "JSON.stringify(appData)"),
     ("method" :> "POST") @@ ("headers" :> ("Authorization" :> "Bearer token"))}
    \cup {"headers" :> headers : headers \in CallerHeaders}

\* the own properties that ...object copies: none for undefined
OwnProperties(object) == IF object = Undefined THEN NoProperties ELSE object

\* object.key
Get(object, key) == IF key \in DOMAIN object THEN object[key] ELSE Undefined

\* the second argument of fetch in makeRequest:
\* { headers: { 'Content-Type': ..., ...options.headers }, ...options }
fetchInit(options) ==
    Spread("headers" :> Spread(JsonContentType,
                               OwnProperties(Get(options, "headers"))),
           OwnProperties(options))

\* makeRequest reaches its call of fetch with some options
makeRequestCallsFetch ==
    \E options \in Options :
        /\ fetchCall' = [options |-> options, init |-> fetchInit(options)]
        /\ UNCHANGED <<apiVars, formVars, historyVars, pageVars,
                       riskView, factorView>>

(***************************************************************************)
(* Specifications                                                          *)
(***************************************************************************)
NextHooks ==
    \/ checkHealth
    \/ checkHealthSettles
    \/ fetchCategories
    \/ fetchCategoriesSettles
    \/ predict
    \/ predictSettles
    \/ getDemoPredict
    \/ getDemoPredictSettles

\* one request hook instance of any of the four kinds; the form is not used
InitHooks ==
    /\ InitHook
    /\ InitForm /\ initialData = NoFields
    /\ InitHistory
    /\ InitPage /\ surface = "PermissionsChecker"
    /\ InitView

SpecHooks == InitHooks /\ [][NextHooks]_vars

NextForm ==
    \/ updateField
    \/ updateMultipleFields
    \/ validateForm
    \/ resetForm

\* one useAppForm instance created with any of the initial data; no request
\* is made
InitForms ==
    /\ InitHook /\ hook = "usePrivacyPrediction"
    /\ InitForm
    /\ InitHistory
    /\ InitPage /\ surface = "PermissionsChecker"
    /\ InitView

SpecForm == InitForms /\ [][NextForm]_vars

NextHistory ==
    \/ addPrediction
    \/ clearHistory
    \/ removePrediction

\* one usePredictionHistory instance; no request is made and no form is used
InitHistories ==
    /\ InitHook /\ hook = "usePrivacyPrediction"
    /\ InitForm /\ initialData = NoFields
    /\ InitHistory
    /\ InitPage /\ surface = "PermissionsChecker"
    /\ InitView

SpecHistory == InitHistories /\ [][NextHistory]_vars

NextPages ==
    \/ setAppName
    \/ setCategory
    \/ setSwitch
    \/ togglePermission
    \/ clickSubmit
    \/ handleKeyPress
    \/ predictAwaited
    \/ checkPrivacyScoreResumes
    \/ checkAnotherApp

\* one calculator surface of any of the three kinds, with the
\* usePrivacyPrediction instance the two pages use
InitPages ==
    /\ InitHook /\ hook = "usePrivacyPrediction"
    /\ InitForm /\ initialData = NoFields
    /\ InitHistory
    /\ InitPage
    /\ InitView

SpecPages == InitPages /\ [][NextPages]_vars

\* everything that sends a request: the triggers of the three hooks no page
\* uses, called directly, and the events of the three surfaces
NextRequests ==
    \/ checkHealth
    \/ checkHealthSettles
    \/ fetchCategories
    \/ fetchCategoriesSettles
    \/ getDemoPredict
    \/ getDemoPredictSettles
    \/ (hook = "usePrivacyPrediction" /\ NextPages)

\* either a calculator surface with its usePrivacyPrediction instance, or an
\* instance of one of the other three hooks on its own
InitRequests ==
    /\ InitHook
    /\ InitForm /\ initialData = NoFields
    /\ InitHistory
    /\ InitPage
    /\ hook # "usePrivacyPrediction" => surface = "PermissionsChecker"
    /\ InitView

SpecRequests == InitRequests /\ [][NextRequests]_vars

NextViews ==
    \/ renderRiskLevel
    \/ renderRiskFactor
    \/ makeRequestCallsFetch

\* nothing is rendered and nothing is sent yet
InitViews ==
    /\ InitHook /\ hook = "usePrivacyPrediction"
    /\ InitForm /\ initialData = NoFields
    /\ InitHistory
    /\ InitPage /\ surface = "SimplePrivacyChecker"
    /\ InitView

SpecViews == InitViews /\ [][NextViews]_vars

(***************************************************************************)
(* Properties of the request hooks                                         *)
(***************************************************************************)
SomeCallSettled == lastSettled # NoCall
LastFulfilled == SomeCallSettled /\ lastSettled.client.state = "fulfilled"
LastRejected == SomeCallSettled /\ lastSettled.client.state = "rejected"

\* one call is outstanding and none overlapped it
SingleCallOutstanding == pending = 1 /\ ~overlapped
\* a call that no other call overlapped has completed, and none was triggered since
SingleCallCompleted == pending = 0 /\ ~overlapped /\ SomeCallSettled

\* C1 as stated: on each of the four hooks the trigger leaves the error and the
\* result empty and loading true until the call completes; completion sets the
\* result or the error and loading false, so a call that failed leaves the
\* result slot empty even when an earlier call had succeeded.
C1_TriggerClearsErrorAndResult ==
    /\ SingleCallOutstanding => loading /\ error = Null /\ data = Null
    /\ SingleCallCompleted /\ LastFulfilled =>
          ~loading /\ data = lastSettled.client.value /\ error = Null
    /\ SingleCallCompleted /\ LastRejected =>
          ~loading /\ error = lastSettled.client.value /\ data = Null

\* C1 amended: every trigger clears the error and sets loading; only
\* usePrivacyPrediction's trigger clears the result, the triggers of the other
\* three hooks leave the result slot as it was; completion sets the result or
\* the error and loading false.
C1_TriggerClearsError ==
    /\ [](SingleCallOutstanding =>
            loading /\ error = Null
            /\ (hook = "usePrivacyPrediction" => data = Null))
    /\ [](SingleCallCompleted /\ LastFulfilled =>
            ~loading /\ data = lastSettled.client.value /\ error = Null)
    /\ [](SingleCallCompleted /\ LastRejected =>
            ~loading /\ error = lastSettled.client.value
            /\ (hook = "usePrivacyPrediction" => data = Null))
    /\ [][pending' > pending /\ hook # "usePrivacyPrediction" => data' = data]_vars

\* C1 witness: on useApiHealth a success followed by a failure leaves the
\* earlier result next to the error.
C1_StaleResultBesideError ==
    /\ hook = "useApiHealth"
    /\ SingleCallCompleted /\ LastRejected
    /\ data # Null /\ error = lastSettled.client.value

\* C2 as stated: once overlapping predict calls have all resolved, data, error
\* and loading are exactly the outcome of the call that resolved last.
C2_LastResolvedDeterminesAll ==
    hook = "usePrivacyPrediction" /\ pending = 0 /\ overlapped =>
        /\ ~loading
        /\ LastFulfilled => data = lastSettled.client.value /\ error = Null
        /\ LastRejected => error = lastSettled.client.value /\ data = Null

\* C2 amended: once overlapping predict calls have all resolved, loading is
\* false and the slot the last resolved call writes holds its outcome (data
\* for a success, error for a failure); a resolution never changes the other
\* slot, which keeps what an earlier resolution of the overlapping calls left.
C2_LastResolvedWritesItsSlot ==
    /\ [](hook = "usePrivacyPrediction" /\ pending = 0 /\ overlapped =>
            /\ ~loading
            /\ LastFulfilled => data = lastSettled.client.value
            /\ LastRejected => error = lastSettled.client.value)
    /\ [][hook = "usePrivacyPrediction" /\ pending' < pending =>
            /\ lastSettled'.client.state = "fulfilled" => error' = error
            /\ lastSettled'.client.state = "rejected" => data' = data]_vars

\* C2 witness: two overlapping predict calls, one succeeded and one failed,
\* have both resolved and both slots are filled.
C2_BothSlotsFilled ==
    /\ hook = "usePrivacyPrediction" /\ pending = 0 /\ overlapped
    /\ data # Null /\ error # Null

\* C3 as stated: loading is true whenever a call is outstanding.
C3_LoadingWhileOutstanding == pending > 0 => loading

\* C3 amended: loading is true while a call that no other call overlaps is
\* outstanding, and false whenever no call is outstanding; when calls overlap
\* the first to complete sets loading false although others are outstanding.
C3_LoadingWhileSingleOutstanding ==
    /\ SingleCallOutstanding => loading
    /\ pending = 0 => ~loading

\* C3 witness: a second, non-overlapping call is outstanding and loading is
\* true again.
C3_SecondCallLoading == SingleCallOutstanding /\ SomeCallSettled /\ loading

(***************************************************************************)
(* Properties of the client, seen through the call that settled last       *)
(***************************************************************************)
LastGotResponse == SomeCallSettled /\ lastSettled.net.kind = "response"
LastResponse == lastSettled.net.response
LastSuccessStatus ==
    LastGotResponse /\ LastResponse.status >= 200 /\ LastResponse.status < 300
LastFailureStatus ==
    LastGotResponse /\ ~(LastResponse.status >= 200 /\ LastResponse.status < 300)
LastBodyIsJson == LastGotResponse /\ LastResponse.body.parses
LastBody == LastResponse.body.value
LastError == lastSettled.client.value

LastLacksDetailAndMessage ==
    \/ ~LastBodyIsJson
    \/ "detail" \notin DOMAIN LastBody /\ "message" \notin DOMAIN LastBody

\* C6 as stated: a non-success response carrying neither detail nor message
\* (unparseable body, or JSON without both) raises a PrivacyApiError whose
\* message is the HTTP status text and whose status is the HTTP status.
C6_StatusTextIsMessage ==
    LastFailureStatus /\ LastLacksDetailAndMessage =>
        /\ lastSettled.client.state = "rejected"
        /\ LastError.message = LastResponse.statusText
        /\ LastError.status = [type |-> "number", value |-> LastResponse.status]

\* C6 amended: the message is the HTTP status text only when the body is not
\* parseable JSON and the status text is not empty; when the body is JSON
\* without detail and message, or the status text is empty, the message is
\* "HTTP " followed by the status code.  The status is the HTTP status.
C6_StatusTextOrHttpCode ==
    LastFailureStatus /\ LastLacksDetailAndMessage =>
        /\ lastSettled.client.state = "rejected"
        /\ LastError.name = "PrivacyApiError"
        /\ ~LastBodyIsJson /\ LastResponse.statusText # "" =>
              LastError.message = LastResponse.statusText
        /\ LastBodyIsJson \/ LastResponse.statusText = "" =>
              /\ LastResponse.status = 404 => LastError.message = "HTTP 404"
              /\ LastResponse.status = 500 => LastError.message = "HTTP 500"
        /\ LastError.status = [type |-> "number", value |-> LastResponse.status]

\* C6 witness: 500 with a body that is not JSON and a status text.
C6_ServerErrorNotJson ==
    /\ hook = "usePrivacyPrediction" /\ pending = 0
    /\ LastGotResponse /\ LastResponse.status = 500 /\ ~LastBodyIsJson
    /\ error.message = "Internal Server Error"
    /\ error.status = [type |-> "number", value |-> 500]

\* C7: whatever fails, the client rejects with a PrivacyApiError: a rejected
\* fetch or an unparseable body of a success response gives the underlying
\* failure's message and no status; the error built for a non-success
\* response passes through with its status and details.
C7_SingleErrorSurface ==
    SomeCallSettled =>
        /\ lastSettled.client.state = "rejected" =>
              LastError.name = "PrivacyApiError"
        /\ lastSettled.net.kind = "rejected" =>
              /\ lastSettled.client.state = "rejected"
              /\ LastError.message = lastSettled.net.reason.message
              /\ LastError.status = Undefined
        /\ LastSuccessStatus /\ ~LastBodyIsJson =>
              /\ lastSettled.client.state = "rejected"
              /\ LastError.message = "Unexpected token"
              /\ LastError.status = Undefined
        /\ LastFailureStatus =>
              /\ lastSettled.client.state = "rejected"
              /\ LastError.status = [type |-> "number", value |-> LastResponse.status]
              /\ LastBodyIsJson => LastError.details = LastBody
        /\ lastSettled.client.state = "fulfilled" =>
              LastSuccessStatus /\ LastBodyIsJson

\* C7 witness: the fetch itself was rejected.
C7_NetworkFailureWrapped ==
    /\ SomeCallSettled /\ lastSettled.net.kind = "rejected"
    /\ LastError.name = "PrivacyApiError"
    /\ LastError.message = "Failed to fetch"
    /\ LastError.status = Undefined

\* C8 as stated: on every hook a failed client call is stored in the error
\* slot and re-thrown to the caller of the trigger.
C8_StoredAndRethrown ==
    pending = 0 /\ LastRejected =>
        /\ error = LastError
        /\ lastSettled.returned = [state |-> "rejected", value |-> LastError]

\* C8 amended: on every hook a failed client call is stored in the error slot;
\* predict and getDemoPredict re-throw it to their caller, checkHealth and
\* fetchCategories swallow it and complete normally.
C8_StoredRethrownByPredictAndDemo ==
    pending = 0 /\ LastRejected =>
        /\ error = LastError
        /\ hook \in {"usePrivacyPrediction", "useDemoPredict"} =>
              lastSettled.returned = [state |-> "rejected", value |-> LastError]
        /\ hook \in {"useApiHealth", "useCategories"} =>
              lastSettled.returned = [state |-> "fulfilled", value |-> Undefined]

\* C8 witness: a failed getDemoPredict stored its error and re-threw it.
C8_DemoRethrew ==
    /\ hook = "useDemoPredict" /\ pending = 0 /\ LastRejected
    /\ error = LastError /\ lastSettled.returned.state = "rejected"

(***************************************************************************)
(* Properties of useAppForm                                                *)
(***************************************************************************)
TenFields ==
    {"perm_location", "perm_contacts", "perm_phone", "perm_sms", "perm_storage",
     "perm_calendar", "perm_network", "perm_device_info", "perm_system"}
FiveFields == {"perm_camera", "perm_microphone", "perm_accounts"}

\* the rule of the data model that field f of the form data breaks
BreaksRule(f) ==
    \/ f = "app_name" /\ trim(formData.app_name) = <<>>
    \/ f = "category" /\ formData.category = ""
    \/ f \in TenFields /\ formData[f] \notin 0..10
    \/ f \in FiveFields /\ formData[f] \notin 0..5
    \/ f = "perm_other" /\ formData.perm_other \notin 0..50

SatisfiesDataModel == \A f \in DOMAIN formData : ~BreaksRule(f)

\* C9: validateForm on form data with a non-blank name, a category and all
\* thirteen permissions in range returns true and leaves no errors, and
\* isValid is true, whatever errors were recorded before the call.
C9_ValidDataValidates ==
    validated.current /\ SatisfiesDataModel =>
        /\ validated.returned
        /\ DOMAIN errors = {}
        /\ isValid

\* C9 witness: validateForm returned true on valid data and replaced a
\* mapping that held errors.
C9_ErrorsReplacedByNone ==
    /\ validated.current /\ SatisfiesDataModel
    /\ validated.returned
    /\ DOMAIN validated.replaced # {}

\* C10: after validateForm the errors mapping has an entry for a field exactly
\* when the field breaks its rule (bounds inclusive).
C10_ErrorsExactlyViolations ==
    validated.current =>
        \A f \in DOMAIN formData : (f \in DOMAIN errors) <=> BreaksRule(f)

\* C10 witness: perm_location is 11 while every other permission is at the
\* upper end of its range, and perm_location alone has an error.
C10_OnlyLocationOutOfRange ==
    /\ validated.current
    /\ formData.perm_location = 11
    /\ formData.perm_system = 10 /\ formData.perm_camera = 5
    /\ formData.perm_other = 50
    /\ DOMAIN errors = {"perm_location"}
    /\ ~validated.returned

(***************************************************************************)
(* Properties of field edits and of the derived form values                *)
(***************************************************************************)
Without(errs, fields) == [f \in DOMAIN errs \ fields |-> errs[f]]

EditedByUpdateField == lastFormOp.op = "updateField"
EditedByUpdateMultipleFields == lastFormOp.op = "updateMultipleFields"

\* C11 (as stated): right after a field edit, by updateField or by
\* updateMultipleFields, the errors are the errors recorded before the edit
\* without those of the edited fields.
C11_EveryEditClearsItsErrors ==
    (EditedByUpdateField \/ EditedByUpdateMultipleFields)
        => errors = Without(lastFormOp.before, lastFormOp.fields)

\* C11 (amended): right after updateField the errors are the errors recorded
\* before it without the one of the edited field; right after
\* updateMultipleFields the errors are exactly those recorded before it, the
\* ones of the edited fields included; right after validateForm they are the
\* rule violations of the form data and right after resetForm there are none.
C11_OnlyUpdateFieldClearsItsError ==
    /\ EditedByUpdateField
          => errors = Without(lastFormOp.before, lastFormOp.fields)
    /\ EditedByUpdateMultipleFields => errors = lastFormOp.before
    /\ lastFormOp.op = "validateForm" => errors = NewErrors(formData)
    /\ lastFormOp.op = "resetForm" => errors = NoErrors
    /\ lastFormOp.op = "none" => errors = NoErrors

\* updateMultipleFields has just edited a field whose error is still recorded
C11_StaleErrorAfterMultipleEdit ==
    /\ EditedByUpdateMultipleFields
    /\ lastFormOp.fields \cap DOMAIN errors # {}

\* C12 (as stated): hasHighRiskPermissions is true exactly when one of the
\* five high-risk permission fields is non-zero, negative values included.
C12_HighRiskIffNonZero ==
    hasHighRiskPermissions <=> (\E f \in highRiskFields : formData[f] # 0)

\* C12 (amended): hasHighRiskPermissions is true exactly when one of the five
\* high-risk permission fields is greater than zero; a negative value does
\* not count.
C12_HighRiskIffPositive ==
    hasHighRiskPermissions <=> (\E f \in highRiskFields : formData[f] > 0)

\* a high-risk field is negative, none is positive, and the flag is false
C12_NegativeIsNotHighRisk ==
    /\ \E f \in highRiskFields : formData[f] < 0
    /\ ~hasHighRiskPermissions

(***************************************************************************)
(* Properties of the prediction history                                    *)
(***************************************************************************)
Take(seq, n) == SubSeq(seq, 1, IF n < Len(seq) THEN n ELSE Len(seq))

IsPrefix(short, long) ==
    Len(short) <= Len(long) /\ short = SubSeq(long, 1, Len(short))

JustAdded == lastHistoryOp.op = "addPrediction"
JustRemoved == lastHistoryOp.op = "removePrediction"

\* addPrediction put its argument in front and dropped nothing but, from a
\* list of ten, the oldest entry
AddedInFront ==
    JustAdded =>
        /\ predictions[1] = lastHistoryOp.arg
        /\ Len(lastHistoryOp.before) < 10
              => predictions = <<lastHistoryOp.arg>> \o lastHistoryOp.before
        /\ Len(lastHistoryOp.before) = 10
              => predictions = <<lastHistoryOp.arg>>
                                 \o SubSeq(lastHistoryOp.before, 1, 9)

\* C13 (as stated): the history has at most 10 entries and is, newest first,
\* exactly the (up to 10) most recently added entries that removePrediction
\* and clearHistory did not remove; an addition to a history of 10 drops the
\* oldest entry and no other.
C13_TenMostRecentSurvivors ==
    /\ Len(predictions) <= 10
    /\ predictions = Take(surviving, 10)
    /\ AddedInFront

\* C13 (amended): the history has at most 10 entries and is, newest first, an
\* unbroken run of the most recently added entries that were not removed; an
\* addition to a history of 10 drops the oldest entry and no other.  An
\* entry dropped that way does not come back, so the run may be shorter than
\* 10 while older entries that were never removed exist.
C13_RunOfMostRecentSurvivors ==
    /\ Len(predictions) <= 10
    /\ IsPrefix(predictions, surviving)
    /\ AddedInFront

\* an entry was dropped from a full history and a later removal left nine
\* entries, although ten that were never removed have been added
C13_DroppedEntryNotRestored ==
    /\ JustRemoved
    /\ Len(predictions) = 9
    /\ Len(surviving) = 10

\* the indexes of the entries of the list before removePrediction that do
\* not have the removed timestamp
KeptIndexes ==
    {i \in DOMAIN lastHistoryOp.before :
       lastHistoryOp.before[i].timestamp # lastHistoryOp.arg.timestamp}

NthKept(n) ==
    CHOOSE i \in KeptIndexes : Cardinality({k \in KeptIndexes : k <= i}) = n

\* C14 (as stated): removePrediction(t) removes exactly one entry, one with
\* timestamp t, and keeps the others in order; without such an entry the
\* history is unchanged.  Two entries may have the same timestamp.
C14_RemovesExactlyOne ==
    JustRemoved =>
        LET before == lastHistoryOp.before IN
        IF KeptIndexes = DOMAIN before
          THEN predictions = before
          ELSE \E i \in DOMAIN before \ KeptIndexes :
                 predictions = SubSeq(before, 1, i - 1)
                                 \o SubSeq(before, i + 1, Len(before))

\* C14 (amended): removePrediction(t) removes every entry whose timestamp is
\* t, all of them when several entries have it, and keeps the others in
\* order; without such an entry the history is unchanged.
C14_RemovesEveryMatch ==
    JustRemoved =>
        /\ Len(predictions) = Cardinality(KeptIndexes)
        /\ \A n \in DOMAIN predictions :
              predictions[n] = lastHistoryOp.before[NthKept(n)]

\* removePrediction has just removed two entries that had the same timestamp
\* and kept another one
C14_RemovedBothDuplicates ==
    /\ JustRemoved
    /\ Len(predictions) = Len(lastHistoryOp.before) - 2
    /\ predictions # <<>>

(***************************************************************************)
(* Properties of the calculator surfaces                                   *)
(***************************************************************************)
OnPermissionsChecker == surface = "PermissionsChecker"
OnSimpleChecker == surface = "SimplePrivacyChecker"
OnHero == surface = "Hero"

SubmitEvents == {"clickSubmit", "pressEnter"}

\* the request in flight was sent by the event handled last
JustSubmitted == lastEvent.op \in SubmitEvents /\ request # Null

\* C15: a toggle at index i negates the enabled flag of entry i and of no
\* other entry, keeps the keys, the order and the length of 12, and leaves
\* the name, the category, the five switches, the prediction and the error
\* as they were.
C15_ToggleFlipsOnlyItsEntry ==
    [][lastEvent'.op = "togglePermission" =>
         /\ Len(permissions') = 12
         /\ Len(permissions) = 12
         /\ \A j \in 1..12 :
               /\ permissions'[j].key = permissions[j].key
               /\ permissions'[j].enabled =
                     IF j = lastEvent'.index THEN ~permissions[j].enabled
                                             ELSE permissions[j].enabled
         /\ UNCHANGED <<appName, category, switches, data, error>>]_vars

\* Location Access has just been switched on while a prediction is shown
C15_ToggledBesidePrediction ==
    /\ OnPermissionsChecker
    /\ lastEvent = Event("togglePermission", 1)
    /\ permissions[1].enabled
    /\ data # Null

\* C16: the AppData the Permissions Checker submits has 1 for every
\* permission whose toggle is enabled and 0 for every other one, 0 for
\* perm_other, and the category and the five switches as they are; when the
\* toggles are as created, perm_network is 1 and every other permission 0.
C16_AppDataFollowsToggles ==
    (OnPermissionsChecker /\ JustSubmitted) =>
        /\ \A i \in DOMAIN permissions :
              request[permissions[i].key] = IF permissions[i].enabled THEN 1 ELSE 0
        /\ request.perm_other = 0
        /\ request.category = category
        /\ request.free = switches.isFree
        /\ request.has_ads = switches.hasAds
        /\ request.has_iap = switches.hasIAP
        /\ request.is_game = switches.isGame
        /\ request.is_social = switches.isSocial
        /\ permissions = InitialPermissions =>
              \A f \in PermFields :
                request[f] = IF f = "perm_network" THEN 1 ELSE 0

\* submitted with Camera Access switched on
C16_SubmittedWithCamera ==
    /\ OnPermissionsChecker
    /\ JustSubmitted
    /\ permissions[2].enabled
    /\ request.perm_camera = 1

\* C17: on every surface, a submit with a name that is empty after trimming
\* changes neither the prediction, the error or the loading flag (for the
\* Hero: its result and its loading flag) and sends no request.
C17_BlankNameSendsNothing ==
    [][(lastEvent'.op \in SubmitEvents /\ trim(appName) = <<>>) =>
         UNCHANGED <<data, error, loading, heroResult, isLoading,
                     request, pending>>]_vars

\* Enter was pressed in the Hero on an input of one space while an earlier
\* result is shown
C17_EnterOnBlankInput ==
    /\ OnHero
    /\ lastEvent.op = "pressEnter"
    /\ appName = <<" ">>
    /\ heroResult # Null
    /\ request = Null

\* C18: every AppData the Simple Privacy Checker submits is the same apart
\* from app_name: category "Social", free, no ads, no purchases, not a game,
\* not social, perm_network 1 and the twelve other permission counters 0.
C18_FixedBasicProfile ==
    (OnSimpleChecker /\ request # Null) =>
        /\ DOMAIN request = AppDataFields
        /\ request.category = "Social"
        /\ request.free = TRUE
        /\ \A f \in {"has_ads", "has_iap", "is_game", "is_social"} :
              request[f] = FALSE
        /\ request.perm_network = 1
        /\ \A f \in PermFields \ {"perm_network"} : request[f] = 0

\* a second submission, after an earlier one has completed
C18_SecondSubmission ==
    /\ OnSimpleChecker
    /\ JustSubmitted
    /\ lastSettled # NoCall
    /\ request.app_name = <<"a">>

\* C19 (as stated): right after "Check Another App" the name input is empty
\* and no prediction is displayed.
C19_CheckAnotherClearsResult ==
    lastEvent.op = "checkAnotherApp" => (appName = <<>> /\ data = Null)

\* C19 (amended): "Check Another App" empties the name input and leaves the
\* displayed prediction, the error and the loading flag as they were, so the
\* result panel is still shown after it.
C19_CheckAnotherClearsInputOnly ==
    [][lastEvent'.op = "checkAnotherApp" =>
         /\ appName' = <<>>
         /\ data' = data
         /\ data' # Null
         /\ UNCHANGED <<error, loading>>]_vars

\* "Check Another App" was the last event: the input is empty and the
\* prediction is still displayed
C19_ResultStillShown ==
    /\ OnSimpleChecker
    /\ lastEvent.op = "checkAnotherApp"
    /\ appName = <<>>
    /\ data # Null

\* the Hero's request has just completed
HeroSettled == OnHero /\ lastEvent.op = "settled"

HeroGotResponse == lastSettled.net.kind = "response"

HeroFailureStatus ==
    HeroGotResponse /\ lastSettled.net.response.status \notin 200..299

HeroBodyIsJson == HeroGotResponse /\ lastSettled.net.response.body.parses

HeroBodyHasDetail ==
    HeroBodyIsJson /\ "detail" \in DOMAIN lastSettled.net.response.body.value

ShowsError(message) == heroResult = [error |-> message]

\* C20 (as stated): after every non-success response the Hero shows the
\* detail sent by the server as the error, and it shows the fixed "unable to
\* connect" message only when fetch failed without a response.
C20_DetailOrNetworkFailure ==
    HeroSettled =>
        /\ HeroFailureStatus =>
              /\ HeroBodyHasDetail
              /\ ShowsError(lastSettled.net.response.body.value.detail)
        /\ ShowsError(ConnectMessage) => ~HeroGotResponse

\* C20 (amended): after a non-success response whose body is JSON with a
\* detail the Hero shows that detail as the error; whose body is JSON without
\* a detail, the fixed 'Failed to check privacy score'.  It shows the fixed
\* "unable to connect" message when fetch failed without a response and also
\* after any response, success or not, whose body is not JSON.  After a
\* success response with a JSON body it holds that body.
C20_DetailFallbackOrCatchAll ==
    HeroSettled =>
        /\ (HeroFailureStatus /\ HeroBodyHasDetail)
              => ShowsError(lastSettled.net.response.body.value.detail)
        /\ (HeroFailureStatus /\ HeroBodyIsJson /\ ~HeroBodyHasDetail)
              => ShowsError("Failed to check privacy score")
        /\ (HeroGotResponse /\ ~HeroBodyIsJson) => ShowsError(ConnectMessage)
        /\ ~HeroGotResponse => ShowsError(ConnectMessage)
        /\ (HeroGotResponse /\ ~HeroFailureStatus /\ HeroBodyIsJson)
              => heroResult = lastSettled.net.response.body.value

\* the server answered 500 with a body that is not JSON and the Hero shows
\* the "unable to connect" message
C20_ServerErrorShownAsConnectFailure ==
    /\ HeroSettled
    /\ HeroGotResponse
    /\ lastSettled.net.response.status = 500
    /\ ~HeroBodyIsJson
    /\ ShowsError(ConnectMessage)

HeroHoldsResponseData ==
    /\ HeroGotResponse
    /\ heroResult = lastSettled.net.response.body.value

HeroHoldsErrorRecord ==
    /\ DOMAIN heroResult = {"error"}
    /\ heroResult.error # ""

\* C21: a Hero instance never has more than one request in flight.  It is
\* loading exactly while its request is in flight; while it is loading the
\* event handled last is the submit that sent the request and the previous
\* result is cleared; when the request has resolved it is not loading and
\* its result is the response data or an error record.
C21_HeroSingleFlight ==
    OnHero =>
        /\ inFlight <= 1
        /\ pending = inFlight
        /\ isLoading <=> (inFlight = 1)
        /\ isLoading => (heroResult = Null /\ lastEvent.op \in SubmitEvents)
        /\ lastEvent.op = "settled" =>
              /\ ~isLoading
              /\ HeroHoldsResponseData \/ HeroHoldsErrorRecord

\* the Hero is loading for the second time: the result of the first request
\* has been cleared
C21_LoadingAgain ==
    /\ OnHero
    /\ isLoading
    /\ lastSettled # NoCall
    /\ heroResult = Null

OnHookPage == OnPermissionsChecker \/ OnSimpleChecker

PredictionFailed ==
    /\ OnHookPage
    /\ lastEvent.op = "settled"
    /\ lastSettled.client.state = "rejected"

\* C22: when a prediction has failed on the Simple Privacy Checker or on the
\* Permissions Checker, whatever the failure, the submit handler has
\* completed normally, loading is false, the error banner shows the message
\* of the error the client raised, and no result panel is shown.
C22_FailureBecomesBanner ==
    PredictionFailed =>
        /\ handled = Fulfilled(Undefined)
        /\ ~loading
        /\ ErrorBannerShown
        /\ ErrorBannerText = lastSettled.client.value.message
        /\ ~ResultPanelShown

\* the backend could not be reached from the Simple Privacy Checker
C22_NetworkFailureOnSimpleChecker ==
    /\ OnSimpleChecker
    /\ PredictionFailed
    /\ lastSettled.net.kind = "rejected"
    /\ ErrorBannerText = "Failed to fetch"

(***************************************************************************)
(* Properties of the requests sent                                         *)
(***************************************************************************)
CallStarts == pending' > pending
CallCompletes == pending' < pending

\* the call that completes in this step has failed
CallFails ==
    /\ CallCompletes
    /\ IF OnHero
         THEN \/ lastSettled'.net.kind = "rejected"
              \/ ~ResponseOk(lastSettled'.net.response)
              \/ ~lastSettled'.net.response.body.parses
         ELSE lastSettled'.client.state = "rejected"

\* the failure of the call that completes in this step is in the error state
FailureVisible ==
    IF OnHero
      THEN DOMAIN heroResult' = {"error"} /\ heroResult'.error # ""
      ELSE error' = lastSettled'.client.value

Pages == {"PermissionsChecker", "SimplePrivacyChecker"}

Tones ==
    [green |-> <<"text-green-600", "bg-green-100">>,
     yellow |-> <<"text-yellow-600", "bg-yellow-100">>,
     orange |-> <<"text-orange-600", "bg-orange-100">>,
     red |-> <<"text-red-600", "bg-red-100">>,
     gray |-> <<"text-gray-600", "bg-gray-100">>]

ColourOfLevel(level) ==
    CASE level = "LOW" -> "green"
      [] level = "MEDIUM" -> "yellow"
      [] level = "HIGH" -> "orange"
      [] level = "CRITICAL" -> "red"
      [] OTHER -> "gray"

\* the class that colours the text is the first class of a badge and the last
\* class of an icon
TextColour(className) == className[1]
IconColour(element) == element.className[Len(element.className)]

\* C24: for every level string both pages give the badge the same colours,
\* green for LOW, yellow for MEDIUM, orange for HIGH, red for CRITICAL and
\* gray for any other string, and on each page the icon has the colour of the
\* badge's text
C24_SameColoursOnBothPages ==
    riskView # Null =>
        /\ riskView.SimplePrivacyChecker.badge = riskView.PermissionsChecker.badge
        /\ riskView.PermissionsChecker.badge = Tones[ColourOfLevel(riskView.level)]
        /\ \A page \in Pages :
              IconColour(riskView[page].icon) = TextColour(riskView[page].badge)

\* a lower-case level is rendered in gray on both pages
C24_LowerCaseLevelIsGray ==
    /\ riskView # Null
    /\ riskView.level = "low"
    /\ \A page \in Pages :
          /\ riskView[page].badge = Tones.gray
          /\ IconColour(riskView[page].icon) = "text-gray-600"

\* the keywords in the order of their tests, and the glyph of each test
KeywordOrder ==
    <<{<<"l", "o", "c", "a", "t", "i", "o", "n">>},
      {<<"c", "o", "n", "t", "a", "c", "t">>},
      {<<"c", "a", "m", "e", "r", "a">>},
      {<<"m", "i", "c", "r", "o", "p", "h", "o", "n", "e">>},
      {<<"s", "m", "s">>, <<"m", "e", "s", "s", "a", "g", "e">>},
      {<<"a", "d", "s">>, <<"a", "d", "v", "e", "r", "t", "i", "s", "e", "m", "e", "n", "t">>},
      {<<"p", "e", "r", "m", "i", "s", "s", "i", "o", "n">>},
      {<<"s", "o", "c", "i", "a", "l">>},
      {<<"f", "i", "n", "a", "n", "c", "i", "a", "l">>, <<"p", "a", "y", "m", "e", "n", "t">>},
      {<<"h", "e", "a", "l", "t", "h">>}>>
GlyphOrder ==
    <<"U+1F4CD", "U+1F465", "U+1F4F8", "U+1F3A4", "U+1F4AC",
      "U+1F3AF", "U+2699 U+FE0F", "U+1F465", "U+1F4B3", "U+1F3E5">>
WarningGlyph == "U+26A0 U+FE0F"

EqualsIgnoringCase(left, right) == toLowerCase(left) = toLowerCase(right)

OccursIgnoringCase(keyword, text) ==
    \E start \in 1..(Len(text) - Len(keyword) + 1) :
        EqualsIgnoringCase(SubSeq(text, start, start + Len(keyword) - 1), keyword)

\* the places in KeywordOrder of the keywords that occur in the text
Occurring(text) ==
    {place \in DOMAIN KeywordOrder :
        \E keyword \in KeywordOrder[place] : OccursIgnoringCase(keyword, text)}

Earliest(places) == CHOOSE place \in places : \A other \in places : place <= other

\* C25: the glyph of a factor is the glyph of the earliest keyword, in the
\* order of the tests, that occurs in the factor whatever its case, and the
\* warning glyph when no keyword occurs
C25_GlyphOfEarliestKeyword ==
    factorView # Null =>
        LET places == Occurring(factorView.factor)
        IN  factorView.glyph =
                IF places = {} THEN WarningGlyph ELSE GlyphOrder[Earliest(places)]

\* an upper-case CONTACTS stands before Location in the factor, and the
\* factor gets the glyph of location
C25_LocationBeforeContact ==
    /\ factorView # Null
    /\ factorView.factor = <<"C", "O", "N", "T", "A", "C", "T", "S">>
                               \o Space \o <<"L", "o", "c", "a", "t", "i", "o", "n">>
    /\ factorView.glyph = "U+1F4CD"

\* the headers of the request that fetch is given
SentHeaders == OwnProperties(Get(fetchCall.init, "headers"))
SuppliedHeaders == OwnProperties(Get(fetchCall.options, "headers"))

\* C26: whatever the options, the request carries every header the caller
\* supplied and a Content-Type header, which is application/json unless the
\* caller supplied its own Content-Type
C26_JsonContentTypeKept ==
    fetchCall # Null =>
        /\ \A name \in DOMAIN SuppliedHeaders :
              /\ name \in DOMAIN SentHeaders
              /\ SentHeaders[name] = SuppliedHeaders[name]
        /\ "Content-Type" \in DOMAIN SentHeaders
        /\ "Content-Type" \notin DOMAIN SuppliedHeaders
              => SentHeaders["Content-Type"] = "application/json"

(***************************************************************************)
(* Properties of useAppForm: isValid and resetForm                         *)
(***************************************************************************)
\* C27 as claimed: whenever isValid is true the form data satisfies every
\* rule of the data model, the permission ranges included
C27_ValidMeansDataModelHolds == isValid => SatisfiesDataModel

\* C27: whenever isValid is true no error is recorded and the name, trimmed,
\* and the category are non-empty; the permissions are all inside their
\* ranges when, besides, validateForm has run on the current form data
C27_ValidMeansNamedAndNoErrors ==
    /\ isValid =>
          /\ DOMAIN errors = {}
          /\ ~BreaksRule("app_name")
          /\ ~BreaksRule("category")
    /\ isValid /\ validated.current => SatisfiesDataModel

\* isValid is true after an edit and a validateForm that replaced recorded
\* errors
C27_ValidAfterRevalidation ==
    /\ isValid
    /\ validated.current
    /\ edits > 0
    /\ DOMAIN validated.replaced # {}

BuiltInDefaults ==
    [app_name |-> <<>>, category |-> "", free |-> TRUE,
     has_ads |-> FALSE, has_iap |-> FALSE, is_game |-> FALSE, is_social |-> FALSE,
     perm_location |-> 0, perm_camera |-> 0, perm_microphone |-> 0,
     perm_contacts |-> 0, perm_phone |-> 0, perm_sms |-> 0, perm_storage |-> 0,
     perm_calendar |-> 0, perm_network |-> 1, perm_device_info |-> 0,
     perm_accounts |-> 0, perm_system |-> 0, perm_other |-> 0]

Overlaid(defaults, given) ==
    [f \in DOMAIN defaults \cup DOMAIN given |->
        IF f \in DOMAIN given THEN given[f] ELSE defaults[f]]

\* C30: at creation and after every resetForm the form data is the built-in
\* defaults overlaid with initialData and the errors mapping is empty
C30_ResetIsCreationState ==
    lastFormOp.op \in {"none", "resetForm"} =>
        /\ formData = Overlaid(BuiltInDefaults, initialData)
        /\ errors = NoErrors

\* resetForm has run on a form created with initial data, after an edit and
\* a validateForm that recorded errors
C30_ResetAfterFailedValidation ==
    /\ lastFormOp.op = "resetForm"
    /\ DOMAIN lastFormOp.before # {}
    /\ edits > 0
    /\ initialData = AtUpperBounds
    /\ formData.perm_other = MaxOtherPermission

(***************************************************************************)
(* Properties of usePrivacyPrediction as the pages render it               *)
(***************************************************************************)
\* C28: on usePrivacyPrediction, while no trigger has been invoked during an
\* outstanding call, data and error are never both non-null and both are
\* null while loading is true, so the result panel and the error banner that
\* a page renders from them are never shown together
C28_ResultOrErrorNotBoth ==
    hook = "usePrivacyPrediction" /\ ~overlapped =>
        /\ ~(data # Null /\ error # Null)
        /\ loading => data = Null /\ error = Null
        /\ ~(ResultPanelShown /\ ErrorBannerShown)

\* a prediction that nothing overlapped has failed: the error banner is shown
\* without a result panel
C28_BannerWithoutPanel ==
    /\ hook = "usePrivacyPrediction"
    /\ SingleCallCompleted /\ LastRejected
    /\ ErrorBannerShown /\ ~ResultPanelShown
    /\ ~loading

\* C29: the AppData submitted by the Simple Privacy Checker or by the
\* Permissions Checker carries as app_name the entered name without its
\* leading and trailing whitespace
C29_SubmittedNameIsTrimmed ==
    OnHookPage /\ JustSubmitted => request.app_name = trim(appName)

====
